---- MODULE Spec2Model ----
(***************************************************************************)
(* Fine-tuning drivers of the repository:                                  *)
(*   llm-server/scripts/train_codet5.py        (script "codet5")           *)
(*   ai-server/scripts/train_rust_elixir_t5.py (script "rust_elixir")      *)
(* One process per run (spec section 5); the accelerator's gradient        *)
(* accumulation is modelled as the library performs it for one process.    *)
(***************************************************************************)
EXTENDS Integers, Sequences, FiniteSets, TLC

\* Bounds of the model.
MaxBatches == 3
MaxAccum == 3
MaxEpochs == 2
MaxLogEvery == 2
MaxEvalBatches == 1
MaxBatchSize == 2
MaxLabelLen == 2
MaxNll == 1
MaxFragments == 3
MaxInstructionLen == 3
MaxFieldLen == 2

CODET5 == "codet5"
RUST_ELIXIR == "rust_elixir"
Scripts == {CODET5, RUST_ELIXIR}

VARIABLES
    script,             \* which driver runs
    args,               \* parsed command line (Args / RustElixirArgs)
    train_dl,           \* len(train_dl): micro-batches per epoch
    eval_dl,            \* [present, batches]: eval_dl is None iff ~present
    pc,                 \* position of the run in train()
    epoch,              \* for epoch in range(args.epochs)
    step,               \* enumerate(train_dl) index of the next micro-batch
    acc_step,           \* accelerator.step
    sync_gradients,     \* accelerator.sync_gradients
    grads,              \* micro-batches summed into .grad since zero_grad
    optimizer_steps,    \* optimizer updates applied
    scheduler_steps,    \* learning-rate scheduler advances
    global_step,        \* train_codet5.py: global_step
    progress_bar,       \* progress_bar.n
    ops,                \* operations performed by the last micro-batch
    updates,            \* <<epoch, step>> of micro-batches that applied an update
    log,                \* <<epoch, step>> of micro-batches that logged the loss
    training,           \* model.training (train() / eval() mode)
    eval_i,             \* evaluation batches consumed in the current pass
    eval_steps,         \* train_rust_elixir_t5.py: eval_steps
    eval_runs,          \* evaluation passes started: epoch and counters at the start
    output_dir,         \* files written under args.output_dir
    training_config,    \* <<record>> once training_config.json is written
    save_count,         \* number of times the checkpoint was persisted
    error,              \* exception that ended the run, or "none"
    batch,              \* the collated micro-batch of the forward pass
    loss,               \* the scalar handed to accelerator.backward
    content,            \* argument of detect_language_from_content
    instruction,        \* argument of enhance_instruction_for_language
    language,           \* language tag returned, or passed to the augmenter
    enhanced,           \* outcome of enhance_instruction_for_language
    record,             \* one JSON record of the examples file
    columns,            \* keys that occur in some record of the same file
    formatted           \* outcome of the normalizer for the record

loopVars == <<script, args, train_dl, eval_dl, pc, epoch, step, acc_step,
              sync_gradients, grads, optimizer_steps, scheduler_steps,
              global_step, progress_bar, ops, updates, log, training,
              eval_i, eval_steps, eval_runs, output_dir, training_config,
              save_count, error>>

lossVars == <<batch, loss>>

textVars == <<content, instruction, language, enhanced>>

\* Everything of the drivers but the position.
idleVars == <<script, args, train_dl, eval_dl, epoch, step, acc_step,
              sync_gradients, grads, optimizer_steps, scheduler_steps,
              global_step, progress_bar, ops, updates, log, training,
              eval_i, eval_steps, eval_runs, output_dir, training_config,
              save_count, error>>

formatVars == <<record, columns, formatted>>

vars == <<loopVars, lossVars, textVars, formatVars>>

CeilDiv(a, b) == (a + b - 1) \div b

\* train_codet5.py: the scheduler horizon.
num_update_steps_per_epoch == CeilDiv(train_dl, args.gradient_accumulation)
max_train_steps == num_update_steps_per_epoch * args.epochs

\* train_rust_elixir_t5.py: the scheduler and progress-bar horizon.
num_training_steps == (train_dl * args.epochs) \div args.gradient_accumulation

\* Floats are exact rationals <<numerator, denominator>>.
\* Command lines of the model: defaults of parse_args, with the options the
\* loop depends on drawn from small sets.
ArgsOf(s, k, e, l, r, ef) ==
    [gradient_accumulation |-> k,
     epochs |-> e,
     log_every |-> l,
     eval_file |-> ef,
     base_model |-> "Salesforce/codet5p-770m",
     lora_rank |-> r,
     lora_alpha |-> 32,
     lora_dropout |-> "0.1",
     learning_rate |-> IF s = CODET5 THEN "3e-4" ELSE "2.0e-4",
     train_batch_size |-> IF s = CODET5 THEN 2 ELSE 4,
     cross_language_learning |-> FALSE,
     rust_weight |-> <<1, 1>>,
     elixir_weight |-> <<1, 1>>]

LoraRanks == {8, 16}

\* Accelerator._do_sync as entered by `with accelerator.accumulate(model)`:
\* the last batch of the dataloader always synchronises and resets the counter.
DoSyncNoFlush(end_of_dataloader, s, k) ==
    [step |-> s + 1, sync |-> ((s + 1) % k = 0)]

DoSync(end_of_dataloader, s, k) ==
    IF end_of_dataloader
    THEN [step |-> 0, sync |-> TRUE]
    ELSE [step |-> s + 1, sync |-> ((s + 1) % k = 0)]

\* `if eval_dl is not None` after the inner loop.
AfterTrainLoopAlways == "eval_start"

AfterTrainLoop == IF eval_dl.present THEN "eval_start" ELSE "epoch_end"

\* `for epoch in range(args.epochs)`: next iteration or fall through to saving.
EpochLoopShort(e) == IF e < args.epochs - 1 THEN "train_batch" ELSE "save"

EpochLoop(e) == IF e < args.epochs THEN "train_batch" ELSE "save"

\* model.train(): train_codet5.py line 183, train_rust_elixir_t5.py line 330.
ModelTrainSkipped(mode) == mode

ModelTrain(mode) == TRUE

\* Strings are sequences of one-character strings.
NoOutcome == [raised |-> "none", value |-> <<>>]

\* The outcome record of a normalizer that has not run.
NoEntry ==
    [raised |-> "none", prompt |-> <<>>, tgt |-> <<>>, input_ids |-> <<>>,
     labels |-> <<>>, language |-> "absent", quality_score |-> <<>>]

FormatIdle ==
    /\ record = <<>>
    /\ columns = {}
    /\ formatted = NoEntry

TextIdle ==
    /\ FormatIdle
    /\ content = <<>>
    /\ instruction = <<>>
    /\ language = "unknown"
    /\ enhanced = NoOutcome

LoopStart ==
    /\ script \in Scripts
    /\ \E k \in 1..MaxAccum, e \in 1..MaxEpochs, l \in 1..MaxLogEvery,
          r \in LoraRanks, ef \in BOOLEAN :
          /\ args = ArgsOf(script, k, e, l, r, ef)
          /\ eval_dl \in IF ef
                         THEN {[present |-> TRUE, batches |-> m] : m \in 0..MaxEvalBatches}
                         ELSE {[present |-> FALSE, batches |-> 0]}
    /\ train_dl \in 1..MaxBatches
    /\ pc = "train_batch"
    /\ epoch = 0
    /\ step = 0
    /\ acc_step = 0
    /\ sync_gradients = FALSE
    /\ grads = 0
    /\ optimizer_steps = 0
    /\ scheduler_steps = 0
    /\ global_step = 0
    /\ progress_bar = 0
    /\ ops = <<>>
    /\ updates = {}
    /\ log = {}
    /\ training = TRUE
    /\ eval_i = 0
    /\ eval_steps = 0
    /\ eval_runs = <<>>
    /\ output_dir = {}
    /\ training_config = <<>>
    /\ save_count = 0
    /\ error = "none"

Init ==
    /\ LoopStart
    /\ batch = [labels |-> <<>>, nll |-> <<>>]
    /\ loss = <<0, 1>>
    /\ TextIdle

(***************************************************************************)
(* train_codet5.py                                                         *)
(***************************************************************************)

\* One iteration of `for step, batch in enumerate(train_dl)` (lines 188-204).
CodeT5TrainBatch ==
    /\ script = CODET5
    /\ pc = "train_batch"
    /\ step < train_dl
    /\ LET d == DoSync(step = train_dl - 1, acc_step, args.gradient_accumulation)
           g == global_step + 1
       IN  /\ acc_step' = d.step
           /\ sync_gradients' = d.sync
           /\ ops' = IF d.sync
                     THEN <<"forward", "backward", "optimizer.step",
                            "scheduler.step", "zero_grad">>
                     ELSE <<"forward", "backward">>
           /\ grads' = IF d.sync THEN 0 ELSE grads + 1
           /\ optimizer_steps' = IF d.sync THEN optimizer_steps + 1 ELSE optimizer_steps
           /\ scheduler_steps' = IF d.sync THEN scheduler_steps + 1 ELSE scheduler_steps
           /\ updates' = IF d.sync THEN updates \cup {<<epoch, step>>} ELSE updates
           /\ global_step' = g
           /\ log' = IF g % args.log_every = 0
                     THEN log \cup {<<epoch, step>>} ELSE log
           /\ progress_bar' = IF (step + 1) % args.gradient_accumulation = 0
                              THEN progress_bar + 1 ELSE progress_bar
    /\ step' = step + 1
    /\ pc' = IF step + 1 < train_dl THEN "train_batch" ELSE AfterTrainLoop
    /\ UNCHANGED <<script, args, train_dl, eval_dl, epoch, training, eval_i,
                   eval_steps, eval_runs, output_dir, training_config, save_count, error>>
    /\ UNCHANGED <<lossVars, textVars, formatVars>>

\* evaluate(): model.eval(); losses = [] (lines 221-222).
CodeT5EvaluateStart ==
    /\ script = CODET5
    /\ pc = "eval_start"
    /\ training' = FALSE
    /\ eval_i' = 0
    /\ eval_runs' = Append(eval_runs, [epoch |-> epoch, batches_done |-> step,
                                       opt |-> optimizer_steps,
                                       sched |-> scheduler_steps,
                                       grads |-> grads])
    /\ pc' = IF eval_dl.batches > 0 THEN "eval_batch" ELSE "eval_end"
    /\ UNCHANGED <<script, args, train_dl, eval_dl, epoch, step, acc_step,
                   sync_gradients, grads, optimizer_steps, scheduler_steps,
                   global_step, progress_bar, ops, updates, log, eval_steps,
                   output_dir, training_config, save_count, error>>
    /\ UNCHANGED <<lossVars, textVars, formatVars>>

\* evaluate(): one iteration of `for batch in tqdm(eval_dl)` (lines 223-227).
CodeT5EvaluateBatch ==
    /\ script = CODET5
    /\ pc = "eval_batch"
    /\ eval_i < eval_dl.batches
    /\ eval_i' = eval_i + 1
    /\ ops' = <<"forward">>
    /\ pc' = IF eval_i + 1 < eval_dl.batches THEN "eval_batch" ELSE "eval_end"
    /\ UNCHANGED <<script, args, train_dl, eval_dl, epoch, step, acc_step,
                   sync_gradients, grads, optimizer_steps, scheduler_steps,
                   global_step, progress_bar, updates, log, training,
                   eval_steps, eval_runs, output_dir, training_config, save_count, error>>
    /\ UNCHANGED <<lossVars, textVars, formatVars>>

\* evaluate(): `if losses:` guards the mean and the perplexity (lines 228-231).
CodeT5EvaluateEnd ==
    /\ script = CODET5
    /\ pc = "eval_end"
    /\ ops' = IF eval_i > 0 THEN <<"mean", "print">> ELSE <<>>
    /\ pc' = "epoch_end"
    /\ UNCHANGED <<script, args, train_dl, eval_dl, epoch, step, acc_step,
                   sync_gradients, grads, optimizer_steps, scheduler_steps,
                   global_step, progress_bar, updates, log, training, eval_i,
                   eval_steps, eval_runs, output_dir, training_config, save_count, error>>
    /\ UNCHANGED <<lossVars, textVars, formatVars>>

\* Line 209, then the head of the next epoch (lines 182-186) or the loop exit.
CodeT5EpochEnd ==
    /\ script = CODET5
    /\ pc = "epoch_end"
    /\ epoch' = epoch + 1
    /\ pc' = EpochLoop(epoch + 1)
    /\ IF epoch + 1 < args.epochs
       THEN /\ training' = ModelTrain(training)
            /\ progress_bar' = 0
            /\ step' = 0
       ELSE UNCHANGED <<training, progress_bar, step>>
    /\ UNCHANGED <<script, args, train_dl, eval_dl, acc_step, sync_gradients,
                   grads, optimizer_steps, scheduler_steps, global_step, ops,
                   updates, log, eval_i, eval_steps, eval_runs, output_dir,
                   training_config, save_count, error>>
    /\ UNCHANGED <<lossVars, textVars, formatVars>>

\* Lines 211-217: adapters and tokenizer are written; no configuration record.
CodeT5Save ==
    /\ script = CODET5
    /\ pc = "save"
    /\ output_dir' = output_dir \cup {"adapter", "tokenizer"}
    /\ save_count' = save_count + 1
    /\ pc' = "done"
    /\ UNCHANGED <<script, args, train_dl, eval_dl, epoch, step, acc_step,
                   sync_gradients, grads, optimizer_steps, scheduler_steps,
                   global_step, progress_bar, ops, updates, log, training,
                   eval_i, eval_steps, eval_runs, training_config, error>>
    /\ UNCHANGED <<lossVars, textVars, formatVars>>

(***************************************************************************)
(* train_rust_elixir_t5.py                                                 *)
(***************************************************************************)

\* One iteration of `for step, batch in enumerate(train_dl)` (lines 280-314).
RustElixirTrainBatch ==
    /\ script = RUST_ELIXIR
    /\ pc = "train_batch"
    /\ step < train_dl
    /\ LET d == DoSync(step = train_dl - 1, acc_step, args.gradient_accumulation)
       IN  /\ acc_step' = d.step
           /\ sync_gradients' = d.sync
           /\ ops' = IF d.sync
                     THEN <<"forward", "backward", "clip_grad_norm_",
                            "optimizer.step", "scheduler.step", "zero_grad">>
                     ELSE <<"forward", "backward">>
           /\ grads' = IF d.sync THEN 0 ELSE grads + 1
           /\ optimizer_steps' = IF d.sync THEN optimizer_steps + 1 ELSE optimizer_steps
           /\ scheduler_steps' = IF d.sync THEN scheduler_steps + 1 ELSE scheduler_steps
           /\ updates' = IF d.sync THEN updates \cup {<<epoch, step>>} ELSE updates
           /\ progress_bar' = IF d.sync THEN progress_bar + 1 ELSE progress_bar
           /\ log' = IF d.sync /\ step % args.log_every = 0
                     THEN log \cup {<<epoch, step>>} ELSE log
    /\ step' = step + 1
    /\ pc' = IF step + 1 < train_dl THEN "train_batch" ELSE AfterTrainLoop
    /\ UNCHANGED <<script, args, train_dl, eval_dl, epoch, global_step, training,
                   eval_i, eval_steps, eval_runs, output_dir, training_config,
                   save_count, error>>
    /\ UNCHANGED <<lossVars, textVars, formatVars>>

\* Lines 317-320: model.eval(); eval_loss = 0; eval_steps = 0.
RustElixirEvaluateStart ==
    /\ script = RUST_ELIXIR
    /\ pc = "eval_start"
    /\ training' = FALSE
    /\ eval_i' = 0
    /\ eval_steps' = 0
    /\ eval_runs' = Append(eval_runs, [epoch |-> epoch, batches_done |-> step,
                                       opt |-> optimizer_steps,
                                       sched |-> scheduler_steps,
                                       grads |-> grads])
    /\ pc' = IF eval_dl.batches > 0 THEN "eval_batch" ELSE "eval_end"
    /\ UNCHANGED <<script, args, train_dl, eval_dl, epoch, step, acc_step,
                   sync_gradients, grads, optimizer_steps, scheduler_steps,
                   global_step, progress_bar, ops, updates, log,
                   output_dir, training_config, save_count, error>>
    /\ UNCHANGED <<lossVars, textVars, formatVars>>

\* Lines 322-326: one iteration of `for batch in eval_dl` under no_grad.
RustElixirEvaluateBatch ==
    /\ script = RUST_ELIXIR
    /\ pc = "eval_batch"
    /\ eval_i < eval_dl.batches
    /\ eval_i' = eval_i + 1
    /\ eval_steps' = eval_steps + 1
    /\ ops' = <<"forward">>
    /\ pc' = IF eval_i + 1 < eval_dl.batches THEN "eval_batch" ELSE "eval_end"
    /\ UNCHANGED <<script, args, train_dl, eval_dl, epoch, step, acc_step,
                   sync_gradients, grads, optimizer_steps, scheduler_steps,
                   global_step, progress_bar, updates, log, training,
                   eval_runs, output_dir, training_config, save_count, error>>
    /\ UNCHANGED <<lossVars, textVars, formatVars>>

\* Lines 328-330: avg_eval_loss = eval_loss / eval_steps; print; model.train().
\* The division is unguarded: eval_steps = 0 raises ZeroDivisionError.
RustElixirEvaluateEnd ==
    /\ script = RUST_ELIXIR
    /\ pc = "eval_end"
    /\ IF eval_steps = 0
       THEN /\ error' = "ZeroDivisionError"
            /\ pc' = "aborted"
            /\ UNCHANGED <<ops, training>>
       ELSE /\ ops' = <<"mean", "print">>
            /\ training' = ModelTrain(training)
            /\ pc' = "epoch_end"
            /\ UNCHANGED error
    /\ UNCHANGED <<script, args, train_dl, eval_dl, epoch, step, acc_step,
                   sync_gradients, grads, optimizer_steps, scheduler_steps,
                   global_step, progress_bar, updates, log, eval_i,
                   eval_steps, eval_runs, output_dir, training_config, save_count>>
    /\ UNCHANGED <<lossVars, textVars, formatVars>>

\* Head of `for epoch in range(args.epochs)` (line 279) after an epoch's body.
RustElixirEpochEnd ==
    /\ script = RUST_ELIXIR
    /\ pc = "epoch_end"
    /\ epoch' = epoch + 1
    /\ pc' = EpochLoop(epoch + 1)
    /\ step' = IF epoch + 1 < args.epochs THEN 0 ELSE step
    /\ UNCHANGED <<script, args, train_dl, eval_dl, acc_step, sync_gradients,
                   grads, optimizer_steps, scheduler_steps, global_step,
                   progress_bar, ops, updates, log, training, eval_i,
                   eval_steps, eval_runs, output_dir, training_config,
                   save_count, error>>
    /\ UNCHANGED <<lossVars, textVars, formatVars>>

\* Lines 339-356: the record written to training_config.json.
RustElixirConfig ==
    [base_model |-> args.base_model,
     lora_config |-> [r |-> args.lora_rank,
                      lora_alpha |-> args.lora_alpha,
                      lora_dropout |-> args.lora_dropout],
     training_args |-> [learning_rate |-> args.learning_rate,
                        epochs |-> args.epochs,
                        batch_size |-> args.train_batch_size],
     rust_elixir_specific |->
         [cross_language_learning |-> args.cross_language_learning,
          rust_weight |-> args.rust_weight,
          elixir_weight |-> args.elixir_weight]]

\* Lines 333-361: adapters, tokenizer and training_config.json are written.
RustElixirSave ==
    /\ script = RUST_ELIXIR
    /\ pc = "save"
    /\ output_dir' = output_dir \cup {"adapter", "tokenizer", "training_config.json"}
    /\ training_config' = <<RustElixirConfig>>
    /\ save_count' = save_count + 1
    /\ pc' = "done"
    /\ UNCHANGED <<script, args, train_dl, eval_dl, epoch, step, acc_step,
                   sync_gradients, grads, optimizer_steps, scheduler_steps,
                   global_step, progress_bar, ops, updates, log, training,
                   eval_i, eval_steps, eval_runs, error>>
    /\ UNCHANGED <<lossVars, textVars, formatVars>>

Next ==
    \/ CodeT5TrainBatch
    \/ CodeT5EvaluateStart
    \/ CodeT5EvaluateBatch
    \/ CodeT5EvaluateEnd
    \/ CodeT5EpochEnd
    \/ CodeT5Save
    \/ RustElixirTrainBatch
    \/ RustElixirEvaluateStart
    \/ RustElixirEvaluateBatch
    \/ RustElixirEvaluateEnd
    \/ RustElixirEpochEnd
    \/ RustElixirSave

Spec == Init /\ [][Next]_vars

(***************************************************************************)
(* train_rust_elixir_t5.py: the loss of one micro-batch (lines 282-299)     *)
(***************************************************************************)

IGNORE_INDEX == -100

Languages == {"rust", "elixir", "unknown"}

\* Values of --rust-weight / --elixir-weight the model draws from.
Weights == {<<1, 1>>, <<3, 2>>}

\* Per-token negative log-likelihoods the logits may give a label token.
NllValues == {0, MaxNll}

RatAdd(a, b) == <<a[1] * b[2] + b[1] * a[2], a[2] * b[2]>>
RatMul(a, b) == <<a[1] * b[1], a[2] * b[2]>>
RatDivInt(a, n) == <<a[1], a[2] * n>>
RatEq(a, b) == a[1] * b[2] = b[1] * a[2]

Max(S) == CHOOSE x \in S : \A y \in S : y <= x

\* DataCollatorForSeq2Seq: label rows are right-padded with -100 to one length;
\* `raw` is a sequence of examples [language, nll], one nll per label token.
PadLabels(n, width) == [j \in 1..width |-> IF j <= n THEN 1 ELSE IGNORE_INDEX]
PadNll(row, width) == [j \in 1..width |-> IF j <= Len(row) THEN row[j] ELSE 0]
Collate(raw, with_language) ==
    LET width == Max({Len(raw[i].nll) : i \in 1..Len(raw)})
        labels == [i \in 1..Len(raw) |-> PadLabels(Len(raw[i].nll), width)]
        nll == [i \in 1..Len(raw) |-> PadNll(raw[i].nll, width)]
    IN  IF with_language
        THEN [labels |-> labels, nll |-> nll,
              language |-> [i \in 1..Len(raw) |-> raw[i].language]]
        ELSE [labels |-> labels, nll |-> nll]

RawExamples ==
    {[language |-> l, nll |-> r] :
        l \in Languages,
        r \in UNION {[1..n -> NllValues] : n \in 1..MaxLabelLen}}

\* Positions of the flattened labels that are not ignore_index.
Counted(labels) ==
    {<<i, j>> \in (1..Len(labels)) \X (1..Len(labels[1])) :
        labels[i][j] # IGNORE_INDEX}

RECURSIVE SumNll(_, _)
SumNll(nll, positions) ==
    IF positions = {} THEN 0
    ELSE LET p == CHOOSE q \in positions : TRUE
         IN  nll[p[1]][p[2]] + SumNll(nll, positions \ {p})

\* torch.nn.CrossEntropyLoss(ignore_index=-100) on logits.view(-1, V) and
\* labels.view(-1): the mean over the positions that are not ignored.
CrossEntropyLoss(logits, labels) ==
    <<SumNll(logits, Counted(labels)), Cardinality(Counted(labels))>>

\* calculate_weighted_loss with the two weights exchanged.
calculate_weighted_loss_swapped(logits, labels, lang, rust_weight, elixir_weight) ==
    LET l == CrossEntropyLoss(logits, labels)
    IN  IF lang = "rust" THEN RatMul(l, elixir_weight)
        ELSE IF lang = "elixir" THEN RatMul(l, rust_weight)
        ELSE l

calculate_weighted_loss(logits, labels, lang, rust_weight, elixir_weight) ==
    LET l == CrossEntropyLoss(logits, labels)
    IN  IF lang = "rust" THEN RatMul(l, rust_weight)
        ELSE IF lang = "elixir" THEN RatMul(l, elixir_weight)
        ELSE l

\* outputs.loss: the model's own loss over the whole batch.
ModelLoss(b) == CrossEntropyLoss(b.nll, b.labels)

\* Lines 287-296: total_loss over `for i, lang in enumerate(languages)`.
RECURSIVE TotalLoss(_, _)
TotalLoss(b, n) ==
    IF n = 0 THEN <<0, 1>>
    ELSE RatAdd(TotalLoss(b, n - 1),
                calculate_weighted_loss(<<b.nll[n]>>, <<b.labels[n]>>,
                                        b.language[n],
                                        args.rust_weight, args.elixir_weight))

\* Lines 285-299.
BatchLoss(b) ==
    IF args.cross_language_learning /\ "language" \in DOMAIN b
    THEN RatDivInt(TotalLoss(b, Len(b.language)), Len(b.language))
    ELSE ModelLoss(b)

LossInit ==
    /\ script = RUST_ELIXIR
    /\ \E c \in BOOLEAN, rw \in Weights, ew \in Weights :
          args = [ArgsOf(RUST_ELIXIR, 1, 1, 1, 16, FALSE) EXCEPT
                      !.cross_language_learning = c,
                      !.rust_weight = rw,
                      !.elixir_weight = ew]
    /\ \E n \in 1..MaxBatchSize, wl \in BOOLEAN :
          \E raw \in [1..n -> RawExamples] : batch = Collate(raw, wl)
    /\ loss = <<0, 1>>
    /\ TextIdle
    /\ train_dl = 1
    /\ eval_dl = [present |-> FALSE, batches |-> 0]
    /\ pc = "forward"
    /\ epoch = 0
    /\ step = 0
    /\ acc_step = 0
    /\ sync_gradients = FALSE
    /\ grads = 0
    /\ optimizer_steps = 0
    /\ scheduler_steps = 0
    /\ global_step = 0
    /\ progress_bar = 0
    /\ ops = <<>>
    /\ updates = {}
    /\ log = {}
    /\ training = TRUE
    /\ eval_i = 0
    /\ eval_steps = 0
    /\ eval_runs = <<>>
    /\ output_dir = {}
    /\ training_config = <<>>
    /\ save_count = 0
    /\ error = "none"

\* Lines 282-301: forward pass, loss selection, backward.
ComputeLoss ==
    /\ pc = "forward"
    /\ loss' = BatchLoss(batch)
    /\ ops' = <<"forward", "backward">>
    /\ grads' = grads + 1
    /\ pc' = "backward_done"
    /\ UNCHANGED <<script, args, train_dl, eval_dl, epoch, step, acc_step,
                   sync_gradients, optimizer_steps, scheduler_steps,
                   global_step, progress_bar, updates, log, training, eval_i,
                   eval_steps, eval_runs, output_dir, training_config,
                   save_count, error, batch>>
    /\ UNCHANGED <<textVars, formatVars>>

LossNext == ComputeLoss

SpecLoss == LossInit /\ [][LossNext]_vars

(***************************************************************************)
(* train_rust_elixir_t5.py: language classifier and instruction augmenter  *)
(***************************************************************************)

\* Python's `marker in text`: the marker occurs at some offset.
Contains(text, marker) ==
    \E i \in 1..(Len(text) - Len(marker) + 1) :
        SubSeq(text, i, i + Len(marker) - 1) = marker

\* Lines 158-165 with the two families tested in the other order.
detect_language_rust_first(text) ==
    IF \/ Contains(text, <<"f", "n", " ">>)
       \/ Contains(text, <<"s", "t", "r", "u", "c", "t", " ">>)
       \/ Contains(text, <<"i", "m", "p", "l", " ">>)
    THEN "rust"
    ELSE IF \/ Contains(text, <<"d", "e", "f", "m", "o", "d", "u", "l", "e">>)
            \/ Contains(text, <<"d", "e", "f", " ">>)
            \/ Contains(text, <<"|", ">">>)
         THEN "elixir"
         ELSE "unknown"

detect_language_from_content(text) ==
    IF \/ Contains(text, <<"d", "e", "f", "m", "o", "d", "u", "l", "e">>)
       \/ Contains(text, <<"d", "e", "f", " ">>)
       \/ Contains(text, <<"|", ">">>)
    THEN "elixir"
    ELSE IF \/ Contains(text, <<"f", "n", " ">>)
            \/ Contains(text, <<"s", "t", "r", "u", "c", "t", " ">>)
            \/ Contains(text, <<"i", "m", "p", "l", " ">>)
         THEN "rust"
         ELSE "unknown"

\* The text line 171 appends to the instruction.
RustGuidance ==
    <<"\n", "\n", "F", "o", "l", "l", "o", "w", " ", "R", "u", "s", "t",
      " ", "b", "e", "s", "t", " ", "p", "r", "a", "c", "t", "i", "c", "e",
      "s", ":", " ", "u", "s", "e", " ", "R", "e", "s", "u", "l", "t", "/",
      "O", "p", "t", "i", "o", "n", " ", "f", "o", "r", " ", "e", "r", "r",
      "o", "r", " ", "h", "a", "n", "d", "l", "i", "n", "g", ",", " ", "i",
      "m", "p", "l", "e", "m", "e", "n", "t", " ", "p", "r", "o", "p", "e",
      "r", " ", "e", "r", "r", "o", "r", " ", "t", "y", "p", "e", "s", ",",
      " ", "a", "d", "d", " ", "d", "o", "c", "u", "m", "e", "n", "t", "a",
      "t", "i", "o", "n", " ", "w", "i", "t", "h", " ", "/", "/", "/", ",",
      " ", "u", "s", "e", " ", "p", "a", "t", "t", "e", "r", "n", " ", "m",
      "a", "t", "c", "h", "i", "n", "g", " ", "w", "i", "t", "h", " ", "m",
      "a", "t", "c", "h", ",", " ", "a", "n", "d", " ", "f", "o", "l", "l",
      "o", "w", " ", "o", "w", "n", "e", "r", "s", "h", "i", "p", " ", "r",
      "u", "l", "e", "s", ".">>

\* Lines 168-175.  The f-string of line 173 has the replacement fields
\* `{:ok, result}` and `{:error, reason}`, which hold no expression: Python
\* rejects it with SyntaxError when it compiles the file, so the elixir
\* branch yields no string.
enhance_instruction_for_language(instr, lang) ==
    IF lang = "rust"
    THEN [raised |-> "none", value |-> instr \o RustGuidance]
    ELSE IF lang = "elixir"
         THEN [raised |-> "SyntaxError", value |-> <<>>]
         ELSE [raised |-> "none", value |-> instr]

\* Pieces the target texts of the model are assembled from.
Fragments ==
    {<<"d", "e", "f">>, <<" ">>, <<"m", "o", "d", "u", "l", "e">>,
     <<"|", ">">>, <<">">>, <<"f", "n", " ">>, <<"f", "n">>,
     <<"s", "t", "r", "u", "c", "t", " ">>, <<"i", "m", "p", "l", " ">>,
     <<"u", "n">>, <<"x">>}

RECURSIVE Flatten(_)
Flatten(parts) ==
    IF parts = <<>> THEN <<>> ELSE Head(parts) \o Flatten(Tail(parts))

Contents ==
    {Flatten(parts) : parts \in UNION {[1..n -> Fragments] : n \in 0..MaxFragments}}

InstructionChars == {"a", " ", "\n"}

Instructions == UNION {[1..n -> InstructionChars] : n \in 0..MaxInstructionLen}

\* Everything of the drivers and of the loss at rest.
DriverIdle ==
    /\ script = RUST_ELIXIR
    /\ args = ArgsOf(RUST_ELIXIR, 1, 1, 1, 16, FALSE)
    /\ train_dl = 1
    /\ eval_dl = [present |-> FALSE, batches |-> 0]
    /\ epoch = 0
    /\ step = 0
    /\ acc_step = 0
    /\ sync_gradients = FALSE
    /\ grads = 0
    /\ optimizer_steps = 0
    /\ scheduler_steps = 0
    /\ global_step = 0
    /\ progress_bar = 0
    /\ ops = <<>>
    /\ updates = {}
    /\ log = {}
    /\ training = TRUE
    /\ eval_i = 0
    /\ eval_steps = 0
    /\ eval_runs = <<>>
    /\ output_dir = {}
    /\ training_config = <<>>
    /\ save_count = 0
    /\ error = "none"
    /\ batch = [labels |-> <<>>, nll |-> <<>>]
    /\ loss = <<0, 1>>

DetectInit ==
    /\ DriverIdle
    /\ FormatIdle
    /\ pc = "detect"
    /\ content \in Contents
    /\ instruction = <<>>
    /\ language = "unknown"
    /\ enhanced = NoOutcome

\* Line 126: language = detect_language_from_content(tgt).
DetectLanguage ==
    /\ pc = "detect"
    /\ language' = detect_language_from_content(content)
    /\ pc' = "detected"
    /\ UNCHANGED <<idleVars, lossVars, content, instruction, enhanced, formatVars>>

DetectNext == DetectLanguage

SpecDetect == DetectInit /\ [][DetectNext]_vars

EnhanceInit ==
    /\ DriverIdle
    /\ FormatIdle
    /\ pc = "enhance"
    /\ content = <<>>
    /\ instruction \in Instructions
    /\ language \in Languages
    /\ enhanced = NoOutcome

\* Line 127: enhance_instruction_for_language(instruction, language).
EnhanceInstruction ==
    /\ pc = "enhance"
    /\ enhanced' = enhance_instruction_for_language(instruction, language)
    /\ pc' = "enhanced"
    /\ UNCHANGED <<idleVars, lossVars, content, instruction, language, formatVars>>

EnhanceNext == EnhanceInstruction

SpecEnhance == EnhanceInit /\ [][EnhanceNext]_vars

(***************************************************************************)
(* Example normalizers: train_codet5.py _format, train_rust_elixir_t5.py   *)
(* _format_rust_elixir, and the prompt of eval_codet5.py                    *)
(***************************************************************************)

\* --max-seq-len default.
max_seq_len == 1024

TextKeys == {"instruction", "input", "output"}
Keys == TextKeys \cup {"quality_score"}

\* Values of a row: None, or a string (a number is held as its text).
None == [none |-> TRUE, text |-> <<>>]
Str(t) == [none |-> FALSE, text |-> t]

\* load_dataset("json"): every row has all columns of the file; a key that
\* a record lacks while another record of the file has it reads None.
DatasetRow(rec, cols) ==
    [k \in cols \cup DOMAIN rec |-> IF k \in DOMAIN rec THEN rec[k] ELSE None]

\* dict.get(key, default).
Get(row, key, default) == IF key \in DOMAIN row THEN row[key] ELSE default

IsSpace(c) == c \in {" ", "\n", "\t", "\r"}

RECURSIVE lstrip(_)
lstrip(t) ==
    IF t # <<>> /\ IsSpace(Head(t)) THEN lstrip(Tail(t)) ELSE t

RECURSIVE rstrip(_)
rstrip(t) ==
    IF t # <<>> /\ IsSpace(t[Len(t)]) THEN rstrip(SubSeq(t, 1, Len(t) - 1)) ELSE t

strip(t) == lstrip(rstrip(t))

\* The tokenizer with truncation=True: one id per character and the closing
\* id, cut to max_length with the closing id kept.
EOS == "</s>"
tokenizer(text, max_length) ==
    IF Len(text) + 1 <= max_length
    THEN text \o <<EOS>>
    ELSE SubSeq(text, 1, max_length - 1) \o <<EOS>>

Raised(kind) == [NoEntry EXCEPT !.raised = kind]

\* train_codet5.py lines 95-112.
format_codet5(row) ==
    LET i == Get(row, "instruction", Str(<<>>))
        s == Get(row, "input", Str(<<>>))
        t == Get(row, "output", Str(<<>>))
    IN  IF i.none \/ s.none \/ t.none
        THEN Raised("AttributeError")
        ELSE LET instr == strip(i.text)
                 src == rstrip(s.text)
                 tgt == rstrip(t.text)
                 prompt == instr \o <<"\n", "\n">> \o src \o
                           <<"\n", "\n", "#", "#", "#", " ", "D", "e", "s",
                             "i", "r", "e", "d", " ", "O", "u", "t", "p",
                             "u", "t">>
             IN  [raised |-> "none",
                  prompt |-> prompt,
                  tgt |-> tgt,
                  input_ids |-> tokenizer(prompt, max_seq_len),
                  labels |-> tokenizer(tgt, max_seq_len),
                  language |-> "absent",
                  quality_score |-> <<>>]

\* train_rust_elixir_t5.py lines 120-152.
format_rust_elixir(row) ==
    LET i == Get(row, "instruction", Str(<<>>))
        s == Get(row, "input", Str(<<>>))
        t == Get(row, "output", Str(<<>>))
    IN  IF i.none \/ s.none \/ t.none
        THEN Raised("AttributeError")
        ELSE LET instr == strip(i.text)
                 src == rstrip(s.text)
                 tgt == rstrip(t.text)
                 lang == detect_language_from_content(tgt)
                 enh == enhance_instruction_for_language(instr, lang)
                 prompt == enh.value \o
                           <<"\n", "\n", "C", "o", "n", "t", "e", "x", "t",
                             ":", " ">> \o
                           src \o
                           <<"\n", "\n", "#", "#", "#", " ", "C", "o", "d",
                             "e", " ", "O", "u", "t", "p", "u", "t">>
             IN  IF enh.raised # "none"
                 THEN Raised(enh.raised)
                 ELSE [raised |-> "none",
                       prompt |-> prompt,
                       tgt |-> tgt,
                       input_ids |-> tokenizer(prompt, max_seq_len),
                       labels |-> tokenizer(tgt, max_seq_len),
                       language |-> lang,
                       quality_score |->
                           Get(row, "quality_score", Str(<<"0", ".", "0">>))]

\* eval_codet5.py lines 58-63: the sample is the JSON record itself.
eval_prompt(sample) ==
    LET i == Get(sample, "instruction", Str(<<>>))
        s == Get(sample, "input", Str(<<>>))
        t == Get(sample, "output", Str(<<>>))
    IN  IF i.none \/ s.none \/ t.none
        THEN Raised("AttributeError")
        ELSE LET instr == strip(i.text)
                 source == strip(s.text)
                 expected == strip(t.text)
                 prompt == instr \o <<"\n", "\n">> \o source \o
                           <<"\n", "\n", "#", "#", "#", " ", "D", "e", "s",
                             "i", "r", "e", "d", " ", "O", "u", "t", "p",
                             "u", "t">>
             IN  [raised |-> "none",
                  prompt |-> prompt,
                  tgt |-> expected,
                  input_ids |-> tokenizer(prompt, max_seq_len),
                  labels |-> <<>>,
                  language |-> "absent",
                  quality_score |-> <<>>]

\* Field texts of the model: blanks and a letter, and two code lines.
FieldChars == {" ", "a"}
FieldTexts == UNION {[1..n -> FieldChars] : n \in 0..MaxFieldLen}
CodeTexts == {<<"f", "n", " ", "a">>, <<"d", "e", "f", " ", "a">>}

\* JSON records: any subset of the keys, with string values.
Records ==
    UNION {[ks -> {Str(t) : t \in FieldTexts \cup CodeTexts}] :
              ks \in SUBSET TextKeys}
    \cup
    UNION {{[k \in ks \cup {"quality_score"} |->
                IF k = "quality_score" THEN Str(<<"0", ".", "5">>) ELSE r[k]] :
              r \in [ks -> {Str(t) : t \in FieldTexts}]} :
              ks \in SUBSET TextKeys}

FormatInit ==
    /\ DriverIdle
    /\ content = <<>>
    /\ instruction = <<>>
    /\ language = "unknown"
    /\ enhanced = NoOutcome
    /\ pc = "format"
    /\ record \in {r \in Records :
                     \A k \in DOMAIN r \cap {"instruction", "input"} :
                        r[k].text \in FieldTexts}
    /\ columns \in {c \in SUBSET Keys : DOMAIN record \subseteq c}
    /\ formatted = NoEntry

\* raw.map(_format) of train_codet5.py on the record's row.
CodeT5Format ==
    /\ pc = "format"
    /\ formatted' = format_codet5(DatasetRow(record, columns))
    /\ pc' = "formatted_codet5"
    /\ UNCHANGED <<idleVars, lossVars, textVars, record, columns>>

\* raw.map(_format_rust_elixir) of train_rust_elixir_t5.py on the record's row.
RustElixirFormat ==
    /\ pc = "format"
    /\ formatted' = format_rust_elixir(DatasetRow(record, columns))
    /\ pc' = "formatted_rust_elixir"
    /\ UNCHANGED <<idleVars, lossVars, textVars, record, columns>>

\* One iteration of the examples loop of eval_codet5.py.
EvalCodeT5Prompt ==
    /\ pc = "format"
    /\ formatted' = eval_prompt(record)
    /\ pc' = "formatted_eval"
    /\ UNCHANGED <<idleVars, lossVars, textVars, record, columns>>

FormatNext ==
    \/ CodeT5Format
    \/ RustElixirFormat
    \/ EvalCodeT5Prompt

SpecFormat == FormatInit /\ [][FormatNext]_vars

(***************************************************************************)
(* Properties of the training loop drivers                                 *)
(***************************************************************************)

EvalPcs == {"eval_batch", "eval_end"}

\* Epochs whose inner training loop has been left.
EpochsTrained ==
    IF pc \in {"train_batch", "save", "done"} THEN epoch ELSE epoch + 1

\* C2: in train_codet5.py the optimizer updates and the scheduler advances of a
\* whole run number max_train_steps = E * ceil(N / K), the horizon the schedule
\* was built with, and never exceed it on the way.
C2_StepCountCodeT5 ==
    script = CODET5 =>
        /\ optimizer_steps <= max_train_steps
        /\ scheduler_steps = optimizer_steps
        /\ pc = "done" => optimizer_steps = max_train_steps

C2_Witness ==
    /\ script = CODET5
    /\ pc = "done"
    /\ args.epochs > 1
    /\ train_dl % args.gradient_accumulation # 0
    /\ args.gradient_accumulation > 1
    /\ optimizer_steps = max_train_steps

\* C3 (as claimed): in train_rust_elixir_t5.py the optimizer updates of a whole
\* run, each advancing the scheduler and the progress bar by one, number
\* num_training_steps = floor(N * E / K) and never pass that horizon.
C3_StepCountRustElixir ==
    script = RUST_ELIXIR =>
        /\ scheduler_steps = optimizer_steps
        /\ progress_bar = optimizer_steps
        /\ optimizer_steps <= num_training_steps
        /\ pc = "done" => optimizer_steps = num_training_steps

\* C4 (as claimed): in both scripts every loss log line is emitted at a
\* micro-batch on which an optimizer update was applied.
C4_LogOnlyOnUpdate == log \subseteq updates

\* C5 (as claimed): in both scripts an evaluation set that yields no batch
\* never ends the run in a division by zero.
C5_EmptyEvalGuarded ==
    (eval_dl.present /\ eval_dl.batches = 0) =>
        (error # "ZeroDivisionError" /\ pc # "aborted")

\* C6: in both scripts evaluation starts exactly once per epoch, after the last
\* training micro-batch of that epoch, only when an evaluation file was
\* configured; while a pass is under way no optimizer update, scheduler
\* advance or gradient change happens.
C6_EvalOncePerEpoch ==
    /\ ~eval_dl.present => (eval_runs = <<>> /\ pc \notin EvalPcs \cup {"eval_start"})
    /\ eval_dl.present =>
          Len(eval_runs) = IF pc = "eval_start" THEN epoch ELSE EpochsTrained
    /\ \A i \in 1..Len(eval_runs) :
          /\ eval_runs[i].epoch = i - 1
          /\ eval_runs[i].batches_done = train_dl
    /\ pc \in EvalPcs =>
          /\ optimizer_steps = eval_runs[Len(eval_runs)].opt
          /\ scheduler_steps = eval_runs[Len(eval_runs)].sched
          /\ grads = eval_runs[Len(eval_runs)].grads

C6_Witness ==
    /\ eval_dl.present
    /\ eval_dl.batches > 0
    /\ pc = "eval_end"
    /\ epoch = 1
    /\ Len(eval_runs) = 2

\* C7: in both scripts the checkpoint is persisted exactly once per successful
\* run, after all epochs of training and the last evaluation; the state after
\* the save is terminal, and an aborted run has written nothing.
C7_SaveOnceAtEnd ==
    /\ save_count <= 1
    /\ (save_count = 1) <=> (pc = "done")
    /\ save_count = 0 => output_dir = {}
    /\ pc \in {"save", "done"} =>
          /\ epoch = args.epochs
          /\ step = train_dl
          /\ Cardinality(updates) = args.epochs * num_update_steps_per_epoch
          /\ eval_dl.present => Len(eval_runs) = args.epochs
          /\ error = "none"
    /\ pc = "done" => ~ENABLED Next
    /\ pc = "aborted" => (save_count = 0 /\ ~ENABLED Next)

C7_Witness ==
    /\ pc = "done"
    /\ save_count = 1
    /\ args.epochs > 1
    /\ eval_dl.present
    /\ "adapter" \in output_dir

\* C8 (as claimed): after a successful run of either script the output
\* directory holds adapter weights, tokenizer state and training_config.json
\* whose base_model, lora_config and training_args equal the run's options.
C8_OutputArtifacts ==
    pc = "done" =>
        /\ {"adapter", "tokenizer", "training_config.json"} \subseteq output_dir
        /\ Len(training_config) = 1
        /\ training_config[1].base_model = args.base_model
        /\ training_config[1].lora_config =
               [r |-> args.lora_rank, lora_alpha |-> args.lora_alpha,
                lora_dropout |-> args.lora_dropout]
        /\ training_config[1].training_args =
               [learning_rate |-> args.learning_rate, epochs |-> args.epochs,
                batch_size |-> args.train_batch_size]

(***************************************************************************)
(* Properties of the weighted loss                                         *)
(***************************************************************************)

\* |a - b| <= 1e-5 * max(a, b) for non-negative rationals.
RatClose(a, b) ==
    LET x == a[1] * b[2]
        y == b[1] * a[2]
    IN  100000 * (IF x >= y THEN x - y ELSE y - x) <= (IF x >= y THEN x ELSE y)

\* C1 (as claimed): with rust_weight = elixir_weight = 1.0 the language-aware
\* loss of a batch (per-example cross-entropy, summed, divided by the number of
\* examples) equals, within 1e-5 relative tolerance, the unweighted batched
\* cross-entropy of the same batch (mean over all its non-ignored tokens).
C1_WeightedLossEquivalence ==
    (/\ pc = "backward_done"
     /\ args.cross_language_learning
     /\ "language" \in DOMAIN batch
     /\ RatEq(args.rust_weight, <<1, 1>>)
     /\ RatEq(args.elixir_weight, <<1, 1>>))
    => RatClose(loss, ModelLoss(batch))

(***************************************************************************)
(* Properties of the classifier and of the augmenter                       *)
(***************************************************************************)

ElixirMarkers == {<<"d", "e", "f", "m", "o", "d", "u", "l", "e">>,
                  <<"d", "e", "f", " ">>, <<"|", ">">>}
RustMarkers == {<<"f", "n", " ">>, <<"s", "t", "r", "u", "c", "t", " ">>,
                <<"i", "m", "p", "l", " ">>}

\* The text splits as head, marker, tail.
Occurs(text, m) ==
    \E i \in 0..Len(text) : \E j \in i..Len(text) : SubSeq(text, i + 1, j) = m

ElixirMarked(text) == \E m \in ElixirMarkers : Occurs(text, m)
RustMarked(text) == \E m \in RustMarkers : Occurs(text, m)

\* C9: detect_language_from_content returns a tag for every text: 'elixir' if
\* the text holds 'defmodule', 'def ' or '|>' (also when it holds rust markers
\* too), otherwise 'rust' if it holds 'fn ', 'struct ' or 'impl ', otherwise
\* 'unknown'.
C9_ClassifierPolicy ==
    pc = "detected" =>
        /\ language \in Languages
        /\ ElixirMarked(content) => language = "elixir"
        /\ (RustMarked(content) /\ ~ElixirMarked(content)) => language = "rust"
        /\ (~RustMarked(content) /\ ~ElixirMarked(content)) => language = "unknown"

C9_Witness ==
    /\ pc = "detected"
    /\ ElixirMarked(content)
    /\ RustMarked(content)
    /\ language = "elixir"

\* C10 (as claimed): enhance_instruction_for_language never fails; for
\* 'unknown' it returns the instruction unchanged, for 'rust' and 'elixir' a
\* strictly longer string that has the instruction as a prefix.
C10_AugmenterTotal ==
    pc = "enhanced" =>
        /\ enhanced.raised = "none"
        /\ language = "unknown" => enhanced.value = instruction
        /\ language \in {"rust", "elixir"} =>
              /\ Len(enhanced.value) > Len(instruction)
              /\ SubSeq(enhanced.value, 1, Len(instruction)) = instruction

(***************************************************************************)
(* Further properties of the training loop drivers                         *)
(***************************************************************************)

\* The last micro-batch was a training micro-batch (ops is its record).
AfterTrainBatch == Len(ops) >= 2 /\ ops[2] = "backward"

\* C13 (as claimed): in both scripts an optimizer update is applied only at
\* the K-th micro-batch of a window or at the last batch of the epoch, and
\* every update is the sequence clip gradients, optimizer update, one
\* scheduler advance, clear gradients; within a window gradients are kept.
C13_UpdateOrdering ==
    /\ \A u \in updates :
          \/ (u[2] + 1) % args.gradient_accumulation = 0
          \/ u[2] = train_dl - 1
    /\ AfterTrainBatch =>
          IF sync_gradients
          THEN /\ ops = <<"forward", "backward", "clip_grad_norm_",
                          "optimizer.step", "scheduler.step", "zero_grad">>
               /\ grads = 0
          ELSE /\ ops = <<"forward", "backward">>
               /\ grads > 0

\* Position of an update among the updates of the run, in execution order.
UpdateRank(u) ==
    Cardinality({v \in updates :
                    v[1] < u[1] \/ (v[1] = u[1] /\ v[2] <= u[2])})

\* C15 (as claimed): in train_rust_elixir_t5.py, among any log_every
\* consecutive optimizer updates of a run at least one logs the loss.
C15_LogEveryInterval ==
    script = RUST_ELIXIR =>
        \A u \in updates :
            UpdateRank(u) >= args.log_every =>
                \E v \in updates \cap log :
                    /\ UpdateRank(v) <= UpdateRank(u)
                    /\ UpdateRank(v) > UpdateRank(u) - args.log_every

\* C18: in both scripts every training micro-batch runs with the model in
\* training mode and every evaluation batch with the model in inference
\* mode, also in the epochs that follow an evaluation pass.
C18_ModelMode ==
    /\ pc = "train_batch" => training
    /\ pc = "eval_batch" => ~training
    /\ (AfterTrainBatch /\ pc \in {"train_batch", "eval_start", "epoch_end"})
          => training

C18_Witness ==
    /\ script = RUST_ELIXIR
    /\ pc = "train_batch"
    /\ epoch = 1
    /\ step = 1
    /\ Len(eval_runs) = 1
    /\ training

(***************************************************************************)
(* Further properties of the weighted loss and of the classifier           *)
(***************************************************************************)

\* The cross-entropy of example i alone: the mean of its own label tokens.
RECURSIVE RowSum(_, _, _)
RowSum(nll, labels, j) ==
    IF j = 0 THEN 0
    ELSE RowSum(nll, labels, j - 1)
         + (IF labels[j] # IGNORE_INDEX THEN nll[j] ELSE 0)

ExampleLoss(b, i) ==
    <<RowSum(b.nll[i], b.labels[i], Len(b.labels[i])),
      Cardinality({j \in 1..Len(b.labels[i]) : b.labels[i][j] # IGNORE_INDEX})>>

TagWeight(tag) ==
    CASE tag = "rust" -> args.rust_weight
      [] tag = "elixir" -> args.elixir_weight
      [] OTHER -> <<1, 1>>

RECURSIVE WeightedSum(_, _)
WeightedSum(b, S) ==
    IF S = {} THEN <<0, 1>>
    ELSE LET i == CHOOSE k \in S : TRUE
         IN  RatAdd(RatMul(ExampleLoss(b, i), TagWeight(b.language[i])),
                    WeightedSum(b, S \ {i}))

\* C14: with cross-language learning enabled and language tags in the batch,
\* the loss is the average over the examples of (own cross-entropy) * w, with
\* w = rust_weight, elixir_weight or 1.0 by tag; with it disabled the loss is
\* the model's own batch loss, whatever the two weights are.
C14_PerLanguageWeighting ==
    pc = "backward_done" =>
        /\ (args.cross_language_learning /\ "language" \in DOMAIN batch) =>
              RatEq(RatMul(loss, <<Len(batch.language), 1>>),
                    WeightedSum(batch, 1..Len(batch.language)))
        /\ ~args.cross_language_learning =>
              loss = CrossEntropyLoss(batch.nll, batch.labels)

C14_Witness ==
    /\ pc = "backward_done"
    /\ args.cross_language_learning
    /\ "language" \in DOMAIN batch
    /\ Len(batch.language) = 2
    /\ batch.language[1] = "rust"
    /\ batch.language[2] = "elixir"
    /\ ~RatEq(args.rust_weight, args.elixir_weight)
    /\ ExampleLoss(batch, 1)[1] > 0
    /\ ExampleLoss(batch, 2)[1] > 0

IsLetter(c) ==
    c \in {"a", "b", "c", "d", "e", "f", "g", "h", "i", "j", "k", "l", "m",
           "n", "o", "p", "q", "r", "s", "t", "u", "v", "w", "x", "y", "z"}

DefMarker == <<"d", "e", "f", " ">>

\* Offsets at which 'def ' occurs in the text.
DefOffsets(text) ==
    {i \in 1..Len(text) : i + 3 <= Len(text) /\ SubSeq(text, i, i + 3) = DefMarker}

\* C16 (as claimed): a text in which 'def ' occurs only as the tail of a longer
\* word, and which holds neither 'defmodule' nor '|>', is not classified as
\* 'elixir': it is 'rust' if it holds a rust marker, else 'unknown'.
C16_StandaloneDef ==
    (/\ pc = "detected"
     /\ DefOffsets(content) # {}
     /\ \A i \in DefOffsets(content) : i > 1 /\ IsLetter(content[i - 1])
     /\ ~Occurs(content, <<"d", "e", "f", "m", "o", "d", "u", "l", "e">>)
     /\ ~Occurs(content, <<"|", ">">>))
    => language = IF RustMarked(content) THEN "rust" ELSE "unknown"


(***************************************************************************)
(* Properties of the example normalizers                                   *)
(***************************************************************************)

\* The normalizer of the training script that has just run, as an operator.
NormalizerOf(p, row) ==
    IF p = "formatted_codet5" THEN format_codet5(row) ELSE format_rust_elixir(row)

TrainFormatted == pc \in {"formatted_codet5", "formatted_rust_elixir"}

\* C11: lenient normalization.  In both training scripts a record that lacks
\* some of instruction, input, output does not make the normalizer raise: the
\* absent field counts as the empty string, an entry with input_ids and
\* labels is produced, and the language-aware script defaults quality_score
\* to 0.0 when the record has none.
C11_LenientNormalization ==
    (TrainFormatted /\ \E k \in TextKeys : k \notin DOMAIN record) =>
        /\ formatted.raised = "none"
        /\ formatted.input_ids # <<>>
        /\ formatted.labels # <<>>
        /\ "output" \notin DOMAIN record => formatted.tgt = <<>>
        /\ (pc = "formatted_rust_elixir" /\ "quality_score" \notin DOMAIN record) =>
              formatted.quality_score = Str(<<"0", ".", "0">>)

\* Two records differ only in leading or trailing whitespace of their text
\* fields.
SameUpToWhitespace(r1, r2) ==
    /\ DOMAIN r1 = DOMAIN r2
    /\ \A k \in DOMAIN r1 :
          IF k \in TextKeys
          THEN strip(r1[k].text) = strip(r2[k].text)
          ELSE r1[k] = r2[k]

\* C12: whitespace trimming.  In both training scripts two records that
\* differ only in leading or trailing whitespace of instruction, input and
\* output yield the same prompt string and the same label text.
C12_WhitespaceTrimming ==
    (TrainFormatted /\ formatted.raised = "none") =>
        \A r2 \in Records :
            LET other == NormalizerOf(pc, DatasetRow(r2, columns))
            IN  (SameUpToWhitespace(record, r2) /\ other.raised = "none") =>
                    /\ other.prompt = formatted.prompt
                    /\ other.tgt = formatted.tgt

\* C17: train/eval prompt agreement.  For a record that train_codet5.py
\* normalizes, the prompt eval_codet5.py builds for the same record is the
\* same string.
C17_TrainEvalPromptAgreement ==
    (pc = "formatted_codet5" /\ formatted.raised = "none") =>
        formatted.prompt = eval_prompt(record).prompt

====
